---- MODULE Spec2Model ----
(***************************************************************************)
(* Model of Models/SynthSeg/SynthSeg/training.py: the two-phase training   *)
(* driver training() and the per-phase routine train_model().              *)
(*                                                                         *)
(* Python strings are sequences of one-character strings, so that the      *)
(* formatting of snapshot names ('%s_{epoch:03d}.h5', 'wl2_%03d.h5') and   *)
(* the parsing of the epoch out of a checkpoint path are computed as the   *)
(* code computes them.  An optional value is <<>> (None) or <<v>>.         *)
(***************************************************************************)
EXTENDS Integers, Sequences, FiniteSets, TLC

\* ------------------------------------------------------------------ bounds
MaxEpochs == 2
MaxSteps == 2
MaxEpochNumber == 1100

\* ------------------------------------------------------- string primitives
Digits == <<"0", "1", "2", "3", "4", "5", "6", "7", "8", "9">>

IsDigit(c) == \E i \in 1..Len(Digits) : Digits[i] = c

DigitValue(c) == (CHOOSE i \in 1..Len(Digits) : Digits[i] = c) - 1

\* str(n) for n >= 0: the decimal digits of n, most significant first.
RECURSIVE Decimal(_)
Decimal(n) == IF n < 10 THEN <<Digits[n + 1]>>
              ELSE Decimal(n \div 10) \o <<Digits[(n % 10) + 1]>>

RECURSIVE ZeroPad(_, _)
ZeroPad(s, width) == IF Len(s) >= width THEN s ELSE ZeroPad(<<"0">> \o s, width)

\* '%03d' % n and '{epoch:03d}'.format(epoch=n), for n >= 0.
Format03d(n) == ZeroPad(Decimal(n), 3)

\* sub occurs in s at index i (1-based).
OccursAt(sub, s, i) ==
    /\ i >= 1
    /\ i + Len(sub) - 1 <= Len(s)
    /\ SubSeq(s, i, i + Len(sub) - 1) = sub

\* Python's  sub in s.
Contains(sub, s) == \E i \in 1..(Len(s) + 1) : OccursAt(sub, s, i)

\* Python's  s.split(sep)  for a non-empty separator: the list of the pieces.
RECURSIVE Split(_, _)
Split(s, sep) ==
    IF ~Contains(sep, s) THEN <<s>>
    ELSE LET i == CHOOSE k \in 1..Len(s) :
                      /\ OccursAt(sep, s, k)
                      /\ \A j \in 1..(k - 1) : ~OccursAt(sep, s, j)
         IN  <<SubSeq(s, 1, i - 1)>> \o Split(SubSeq(s, i + Len(sep), Len(s)), sep)

\* Python's  s[1:-3].
Slice1Minus3(s) == SubSeq(s, 2, Len(s) - 3)

\* int(s) succeeds on a non-empty string of decimal digits (the signs, blanks
\* and '_' separators int() also takes occur in no name enumerated here).
IntOk(s) == Len(s) > 0 /\ \A i \in 1..Len(s) : IsDigit(s[i])

RECURSIVE IntValue(_)
IntValue(s) == IF Len(s) = 0 THEN 0
               ELSE 10 * IntValue(SubSeq(s, 1, Len(s) - 1)) + DigitValue(s[Len(s)])

\* os.path.basename(p): what follows the last '/'.
RECURSIVE Basename(_)
Basename(p) == IF \E i \in 1..Len(p) : p[i] = "/"
               THEN Basename(SubSeq(p, (CHOOSE i \in 1..Len(p) : p[i] = "/") + 1, Len(p)))
               ELSE p

\* os.path.join(d, name) for a relative name.
PathJoin(d, name) == IF Len(d) = 0 \/ d[Len(d)] = "/" THEN d \o name
                     ELSE d \o <<"/">> \o name


\* -------------------------------------------------------------- literals
WL2 == <<"w", "l", "2">>
DICE == <<"d", "i", "c", "e">>
H5 == <<".", "h", "5">>
MetricTypes == {WL2, DICE}

None == <<>>
Some(v) == <<v>>

\* model_dir arguments: a neutral name, one holding 'dice', one holding 'wl2'.
ModelDirs == {<<"o", "u", "t">>, <<"d", "i", "c", "e", "s">>, <<"w", "l", "2">>}

\* basenames of user-supplied checkpoints
CheckpointNames == {WL2 \o <<"_", "0", "0", "1">> \o H5,
                    DICE \o <<"_", "0", "0", "1">> \o H5,
                    DICE \o <<"_", "b", "e", "s", "t">> \o H5,
                    <<"u", "n", "e", "t">> \o H5}

UserCheckpoints == {PathJoin(d, n) : d \in ModelDirs, n \in CheckpointNames}

EpochArgs == (0 - 1)..MaxEpochs
StepArgs == 1..MaxSteps

\* label lists: the generation labels, and the segmentation lists that keep,
\* merge (label i becomes label j) or erase (everything becomes 0) them.
GenerationLabels == <<0, 2, 3>>
Merge(l, i, j) == [k \in 1..Len(l) |-> IF k = i THEN l[j] ELSE l[k]]
SegmentationLists ==
    {GenerationLabels, [k \in 1..Len(GenerationLabels) |-> 0]}
    \cup {Merge(GenerationLabels, i, j) : i, j \in 1..Len(GenerationLabels)}

\* ------------------------------------------------------- pure code pieces
\* the condition with 'and' for 'or'
EpochCheckBoth(w, d) == (w > 0) /\ (d > 0)

\* training.py:230, the asserted condition
EpochCheck(w, d) == (w > 0) \/ (d > 0)

\* np.unique(l): the distinct values of l in increasing order
RECURSIVE SortedSeq(_)
SortedSeq(S) == IF S = {} THEN <<>>
                ELSE LET m == CHOOSE x \in S : \A y \in S : x <= y
                     IN  <<m>> \o SortedSeq(S \ {m})

\* the labels counted without np.unique
UniqueKeepAll(l) == l

Unique(l) == SortedSeq({l[i] : i \in 1..Len(l)})

\* the snapshot named by the 0-based epoch index
SaveFileNameZeroBased(dir, metric, e) ==
    PathJoin(dir, metric \o <<"_">> \o Format03d(e) \o H5)

\* training.py:322-323, the file ModelCheckpoint writes at the end of the
\* epoch whose 0-based index is e: '%s_{epoch:03d}.h5' with epoch = e + 1
SaveFileName(dir, metric, e) ==
    PathJoin(dir, metric \o <<"_">> \o Format03d(e + 1) \o H5)

\* training.py:299
Wl2Checkpoint(dir, w) == PathJoin(dir, WL2 \o <<"_">> \o Format03d(w) \o H5)

\* training.py:333: os.path.basename(path).split(metric)[1][1:-3]
EpochPieces(metric, path) == Split(Basename(path), metric)
\* the epoch read as the three characters after the underscore
EpochTextThreeChars(metric, path) == SubSeq(EpochPieces(metric, path)[2], 2, 4)
EpochText(metric, path) == Slice1Minus3(EpochPieces(metric, path)[2])
ParseIndexError(metric, path) == Len(EpochPieces(metric, path)) < 2
ParseValueError(metric, path) == ~IntOk(EpochText(metric, path))
ParseInitEpoch(metric, path) == IntValue(EpochText(metric, path))

\* the full load decided without reinitialise_momentum
FullLoadAnyMomentum(metric, path, reinit) == Contains(metric, path)

\* training.py:334
FullLoad(metric, path, reinit) == (~reinit) /\ Contains(metric, path)

VARIABLES
    entry,                 \* "training" or "train_model": the function called
    pc, err,               \* position, and the exception that ended the call
    model_dir, wl2_epochs, dice_epochs, steps_per_epoch,
    checkpoint_arg,        \* the checkpoint argument: None or Some(path)
    checkpoint,            \* training()'s local of that name
    seg_arg,               \* the segmentation_labels argument
    generation_labels, segmentation_labels, n_segmentation_labels,
    brain_generators,      \* BrainGenerator objects constructed
    output_labels,         \* output_labels given to each of them
    nb_labels,             \* nb_labels of the unet
    input_generators,      \* input generators built
    batches,               \* batches pulled from each input generator
    loss_labels,           \* label list of each phase's metrics_model
    metric_type, n_epochs, n_steps, path_checkpoint, reinitialise_momentum,
    generator,             \* the generator train_model was given
    compile_model, init_epoch, epoch, step,
    loaded,                \* "none", "model" (load_model) or "weights"
    loaded_path, compiled,
    dirs, files,           \* directories made, snapshot files that exist
    calls,                 \* metric types of the train_model calls so far
    steps_log,             \* metric type of every training step so far
    saved                  \* snapshots written by the current train_model

args == <<entry, model_dir, wl2_epochs, dice_epochs, steps_per_epoch,
          checkpoint_arg, seg_arg>>
labels == <<generation_labels, segmentation_labels, n_segmentation_labels>>
setup == <<brain_generators, output_labels, nb_labels, input_generators>>
frame == <<metric_type, n_epochs, n_steps, path_checkpoint,
           reinitialise_momentum, generator>>
prep == <<compile_model, init_epoch, loaded, loaded_path, compiled>>
vars == <<args, pc, err, checkpoint, labels, setup, batches, loss_labels, frame,
          prep, epoch, step, dirs, files, calls, steps_log, saved>>

\* ------------------------------------------------------------------ Init
InitIdle ==
    /\ err = "none"
    /\ generation_labels = None /\ segmentation_labels = None
    /\ n_segmentation_labels = 0
    /\ brain_generators = 0 /\ output_labels = <<>> /\ nb_labels = 0
    /\ loss_labels = <<>>
    /\ compile_model = TRUE /\ init_epoch = 0 /\ epoch = 0 /\ step = 0
    /\ loaded = "none" /\ loaded_path = None /\ compiled = FALSE
    /\ dirs = {}
    /\ steps_log = <<>> /\ saved = <<>>

\* a checkpoint argument, and whether the file it names exists
InitFiles(c) ==
    /\ c \in {None} \cup {Some(p) : p \in UserCheckpoints}
    /\ files \in (IF c = None THEN {{}} ELSE {{}, {c[1]}})

\* a call of training(...)
InitTraining ==
    /\ entry = "training" /\ pc = "training"
    /\ model_dir \in ModelDirs
    /\ wl2_epochs \in EpochArgs /\ dice_epochs \in EpochArgs
    /\ steps_per_epoch \in StepArgs
    /\ InitFiles(checkpoint_arg) /\ checkpoint = checkpoint_arg
    /\ seg_arg \in {None} \cup {Some(l) : l \in SegmentationLists}
    /\ metric_type = <<>> /\ n_epochs = 0 /\ n_steps = 0
    /\ path_checkpoint = None /\ reinitialise_momentum = FALSE
    /\ generator = 0
    /\ input_generators = 0 /\ batches = <<>>
    /\ calls = <<>>
    /\ InitIdle

\* a direct call of train_model(model, generator, lr, n_epochs, n_steps,
\* model_dir, metric_type, path_checkpoint, reinitialise_momentum)
InitTrainModel ==
    /\ entry = "train_model" /\ pc = "tm_setup"
    /\ model_dir \in ModelDirs
    /\ wl2_epochs = 0 /\ dice_epochs = 0 /\ steps_per_epoch = 0
    /\ checkpoint = None /\ seg_arg = None
    /\ metric_type \in MetricTypes
    /\ n_epochs \in EpochArgs /\ n_steps \in StepArgs
    /\ InitFiles(checkpoint_arg) /\ path_checkpoint = checkpoint_arg
    /\ reinitialise_momentum \in BOOLEAN
    /\ generator = 1
    /\ input_generators = 1 /\ batches = <<0>>
    /\ calls = <<metric_type>>
    /\ InitIdle

Init == InitTraining \/ InitTrainModel
\* ------------------------------------------------------------ training()
\* training.py:229-231: the assertion on the two epoch counts
CheckEpochs ==
    /\ pc = "training"
    /\ IF EpochCheck(wl2_epochs, dice_epochs)
       THEN pc' = "get_labels" /\ err' = err
       ELSE pc' = "failed" /\ err' = "AssertionError"
    /\ UNCHANGED <<args, checkpoint, labels, setup, batches, loss_labels, frame,
                   prep, epoch, step, dirs, files, calls, steps_log, saved>>

\* training.py:233-239: the label lists and the number of output classes
GetLabelLists ==
    /\ pc = "get_labels"
    /\ generation_labels' = Some(GenerationLabels)
    /\ segmentation_labels' = IF seg_arg # None THEN seg_arg
                              ELSE generation_labels'
    /\ n_segmentation_labels' = Len(Unique(segmentation_labels'[1]))
    /\ pc' = "build"
    /\ UNCHANGED <<args, err, checkpoint, setup, batches, loss_labels, frame,
                   prep, epoch, step, dirs, files, calls, steps_log, saved>>

\* training.py:241-292: the BrainGenerator, the unet and the input generator
BuildGenerator ==
    /\ pc = "build"
    /\ brain_generators' = brain_generators + 1
    /\ output_labels' = Append(output_labels, segmentation_labels)
    /\ nb_labels' = n_segmentation_labels
    /\ input_generators' = input_generators + 1
    /\ batches' = Append(batches, 0)
    /\ pc' = "wl2_phase"
    /\ UNCHANGED <<args, err, checkpoint, labels, loss_labels, frame, prep,
                   epoch, step, dirs, files, calls, steps_log, saved>>

\* the entry of train_model: its parameters, and its locals not yet set
CallTrainModel(metric, epochs) ==
    /\ metric_type' = metric
    /\ n_epochs' = epochs
    /\ n_steps' = steps_per_epoch
    /\ path_checkpoint' = checkpoint
    /\ reinitialise_momentum' = FALSE
    /\ generator' = input_generators
    /\ loss_labels' = Append(loss_labels, <<metric, segmentation_labels>>)
    /\ calls' = Append(calls, metric)
    /\ compile_model' = TRUE /\ init_epoch' = 0 /\ epoch' = 0 /\ step' = 0
    /\ loaded' = "none" /\ loaded_path' = None /\ compiled' = FALSE
    /\ saved' = <<>>
    /\ pc' = "tm_setup"

\* training.py:295-298: the wl2 phase is run when wl2_epochs > 0
Wl2Phase ==
    /\ pc = "wl2_phase"
    /\ wl2_epochs > 0
    /\ CallTrainModel(WL2, wl2_epochs)
    /\ UNCHANGED <<args, err, checkpoint, labels, setup, batches, dirs, files,
                   steps_log>>

\* training.py:295: wl2_epochs <= 0, the wl2 phase is skipped
SkipWl2 ==
    /\ pc = "wl2_phase"
    /\ ~(wl2_epochs > 0)
    /\ pc' = "dice_phase"
    /\ UNCHANGED <<args, err, checkpoint, labels, setup, batches, loss_labels,
                   frame, prep, epoch, step, dirs, files, calls, steps_log, saved>>

\* training() returns after the wl2 phase
Wl2ReturnEnds ==
    /\ pc = "tm_return" /\ entry = "training" /\ metric_type = WL2
    /\ pc' = "done"
    /\ UNCHANGED <<args, err, checkpoint, labels, setup, batches, loss_labels,
                   frame, prep, epoch, step, dirs, files, calls, steps_log, saved>>

\* training.py:298-299: train_model returns, the checkpoint becomes the last
\* wl2 snapshot
Wl2Return ==
    /\ pc = "tm_return" /\ entry = "training" /\ metric_type = WL2
    /\ checkpoint' = Some(Wl2Checkpoint(model_dir, wl2_epochs))
    /\ pc' = "dice_phase"
    /\ UNCHANGED <<args, err, labels, setup, batches, loss_labels, frame, prep,
                   epoch, step, dirs, files, calls, steps_log, saved>>

\* the dice phase given a generator built anew
DicePhaseNewGenerator ==
    /\ pc = "dice_phase"
    /\ brain_generators' = brain_generators + 1
    /\ output_labels' = Append(output_labels, segmentation_labels)
    /\ input_generators' = input_generators + 1
    /\ batches' = Append(batches, 0)
    /\ metric_type' = DICE /\ n_epochs' = dice_epochs
    /\ n_steps' = steps_per_epoch /\ path_checkpoint' = checkpoint
    /\ reinitialise_momentum' = FALSE
    /\ generator' = input_generators'
    /\ loss_labels' = Append(loss_labels, <<DICE, segmentation_labels>>)
    /\ calls' = Append(calls, DICE)
    /\ compile_model' = TRUE /\ init_epoch' = 0 /\ epoch' = 0 /\ step' = 0
    /\ loaded' = "none" /\ loaded_path' = None /\ compiled' = FALSE
    /\ saved' = <<>>
    /\ pc' = "tm_setup"
    /\ UNCHANGED <<args, err, checkpoint, labels, nb_labels, dirs, files,
                   steps_log>>

\* training.py:301-303: the dice phase
DicePhase ==
    /\ pc = "dice_phase"
    /\ CallTrainModel(DICE, dice_epochs)
    /\ UNCHANGED <<args, err, checkpoint, labels, setup, batches, dirs, files,
                   steps_log>>

\* training.py:303, or the end of a direct call: the call returns
Return ==
    /\ pc = "tm_return"
    /\ entry = "train_model" \/ metric_type = DICE
    /\ pc' = "done"
    /\ UNCHANGED <<args, err, checkpoint, labels, setup, batches, loss_labels,
                   frame, prep, epoch, step, dirs, files, calls, steps_log, saved>>

\* ----------------------------------------------------------- train_model()
\* training.py:316-327: the model and log folders, the callbacks
MakeDirs ==
    /\ pc = "tm_setup"
    /\ dirs' = dirs \cup {model_dir, PathJoin(model_dir, <<"l", "o", "g", "s">>)}
    /\ pc' = "tm_checkpoint"
    /\ UNCHANGED <<args, err, checkpoint, labels, setup, batches, loss_labels,
                   frame, prep, epoch, step, files, calls, steps_log, saved>>

\* the exception is reported and train_model goes on
RaiseAndGoOn(e) ==
    /\ pc' = "tm_compile" /\ err' = e
    /\ UNCHANGED <<compile_model, loaded, loaded_path>>

\* an exception leaves train_model, and training(), which catches nothing
Raise(e) ==
    /\ pc' = "failed" /\ err' = e
    /\ UNCHANGED <<compile_model, loaded, loaded_path>>

\* training.py:329-342: the initial epoch and the load of the checkpoint
LoadCheckpoint ==
    /\ pc = "tm_checkpoint"
    /\ compiled' = compiled
    /\ IF path_checkpoint = None
       THEN /\ init_epoch' = 0 /\ pc' = "tm_compile" /\ err' = err
            /\ UNCHANGED <<compile_model, loaded, loaded_path>>
       ELSE LET path == path_checkpoint[1]
                has == Contains(metric_type, path)
            IN  IF has /\ ParseIndexError(metric_type, path)
                THEN init_epoch' = 0 /\ Raise("IndexError")
                ELSE IF has /\ ParseValueError(metric_type, path)
                THEN init_epoch' = 0 /\ Raise("ValueError")
                ELSE /\ init_epoch' = IF has THEN ParseInitEpoch(metric_type, path)
                                      ELSE 0
                     /\ IF path \notin files
                        THEN Raise("OSError")
                        ELSE /\ loaded_path' = path_checkpoint
                             /\ IF FullLoad(metric_type, path, reinitialise_momentum)
                                THEN loaded' = "model" /\ compile_model' = FALSE
                                ELSE loaded' = "weights" /\ compile_model' = TRUE
                             /\ pc' = "tm_compile" /\ err' = err
    /\ UNCHANGED <<args, checkpoint, labels, setup, batches, loss_labels, frame,
                   epoch, step, dirs, files, calls, steps_log, saved>>

\* training.py:343-345, and the entry of fit_generator at the initial epoch
Compile ==
    /\ pc = "tm_compile"
    /\ compiled' = compile_model
    /\ epoch' = init_epoch /\ step' = 0
    /\ pc' = "tm_fit"
    /\ UNCHANGED <<args, err, checkpoint, labels, setup, batches, loss_labels,
                   frame, compile_model, init_epoch, loaded, loaded_path, dirs,
                   files, calls, steps_log, saved>>

\* training.py:347-352: one training step of fit_generator on the next batch
\* of the generator; the step that ends an epoch runs the ModelCheckpoint
\* callback, which writes the snapshot of that epoch
TrainStep ==
    /\ pc = "tm_fit"
    /\ epoch < n_epochs
    /\ batches' = [batches EXCEPT ![generator] = @ + 1]
    /\ steps_log' = Append(steps_log, metric_type)
    /\ IF step + 1 < n_steps
       THEN /\ step' = step + 1
            /\ UNCHANGED <<epoch, files, saved>>
       ELSE /\ step' = 0
            /\ epoch' = epoch + 1
            /\ files' = files \cup {SaveFileName(model_dir, metric_type, epoch)}
            /\ saved' = Append(saved, SaveFileName(model_dir, metric_type, epoch))
    /\ UNCHANGED <<args, pc, err, checkpoint, labels, setup, loss_labels, frame,
                   prep, dirs, calls>>

\* training.py:348-352: fit_generator ends when no epoch is left
FitEnd ==
    /\ pc = "tm_fit"
    /\ ~(epoch < n_epochs)
    /\ pc' = "tm_return"
    /\ UNCHANGED <<args, err, checkpoint, labels, setup, batches, loss_labels,
                   frame, prep, epoch, step, dirs, files, calls, steps_log, saved>>

Next ==
    \/ CheckEpochs \/ GetLabelLists \/ BuildGenerator
    \/ Wl2Phase \/ SkipWl2 \/ Wl2Return \/ DicePhase \/ Return
    \/ MakeDirs \/ LoadCheckpoint \/ Compile \/ TrainStep \/ FitEnd

Spec == Init /\ [][Next]_vars
\* --------------------------------------------- resuming from a snapshot
\* a run of train_model about to finish the epoch numbered n_epochs, whose
\* snapshot a second call is then given as path_checkpoint
InitRoundTrip ==
    /\ entry = "resume" /\ pc = "tm_fit"
    /\ model_dir \in ModelDirs
    /\ wl2_epochs = 0 /\ dice_epochs = 0 /\ steps_per_epoch = 0
    /\ checkpoint_arg = None /\ checkpoint = None /\ seg_arg = None
    /\ metric_type \in MetricTypes
    /\ n_epochs \in 1..MaxEpochNumber /\ n_steps = 1
    /\ path_checkpoint = None /\ reinitialise_momentum = FALSE
    /\ generator = 1 /\ input_generators = 1 /\ batches = <<0>>
    /\ files = {}
    /\ err = "none"
    /\ generation_labels = None /\ segmentation_labels = None
    /\ n_segmentation_labels = 0
    /\ brain_generators = 0 /\ output_labels = <<>> /\ nb_labels = 0
    /\ loss_labels = <<>>
    /\ compile_model = TRUE /\ init_epoch = n_epochs - 1
    /\ epoch = n_epochs - 1 /\ step = 0
    /\ loaded = "none" /\ loaded_path = None /\ compiled = TRUE
    /\ dirs = {model_dir, PathJoin(model_dir, <<"l", "o", "g", "s">>)}
    /\ calls = <<metric_type>> /\ steps_log = <<>> /\ saved = <<>>

\* the caller's second call of train_model, training.py:306-314, with the
\* snapshot the first call wrote last and one more epoch to train
Resume ==
    /\ pc = "tm_return" /\ entry = "resume" /\ Len(calls) = 1
    /\ saved # <<>>
    /\ path_checkpoint' = Some(saved[Len(saved)])
    /\ n_epochs' = n_epochs + 1
    /\ calls' = Append(calls, metric_type)
    /\ compile_model' = TRUE /\ init_epoch' = 0 /\ epoch' = 0 /\ step' = 0
    /\ loaded' = "none" /\ loaded_path' = None /\ compiled' = FALSE
    /\ saved' = <<>>
    /\ pc' = "tm_setup"
    /\ UNCHANGED <<args, err, checkpoint, labels, setup, batches, loss_labels,
                   metric_type, n_steps, reinitialise_momentum, generator,
                   dirs, files, steps_log>>

\* the second call returns
ResumeReturn ==
    /\ pc = "tm_return" /\ entry = "resume" /\ Len(calls) = 2
    /\ pc' = "done"
    /\ UNCHANGED <<args, err, checkpoint, labels, setup, batches, loss_labels,
                   frame, prep, epoch, step, dirs, files, calls, steps_log, saved>>

NextRoundTrip ==
    \/ TrainStep \/ FitEnd \/ Resume \/ MakeDirs \/ LoadCheckpoint \/ Compile
    \/ ResumeReturn

SpecRoundTrip == InitRoundTrip /\ [][NextRoundTrip]_vars
\* =============================================================== claims
Count(seq, x) == Cardinality({i \in 1..Len(seq) : seq[i] = x})

Terminated == pc \in {"done", "failed"}

\* the control is past the checkpoint step of the current train_model call
PastCheckpoint == pc \in {"tm_compile", "tm_fit", "tm_return", "done", "failed"}

\* the snapshot name the documentation gives: the tag, an underscore, the
\* epoch number padded with zeros to three digits, '.h5', in directory dir
SnapshotPath(dir, tag, number) ==
    dir \o <<"/">> \o tag \o <<"_">> \o Format03d(number) \o H5

\* C1: a call of training() with wl2_epochs <= 0 and dice_epochs <= 0 fails
\* at the epoch check, with nothing constructed, made, loaded or trained;
\* with one of the two strictly positive the check does not fail.
C1_EpochCheckFailsFast ==
    entry = "training" =>
        /\ (wl2_epochs <= 0 /\ dice_epochs <= 0 /\ pc # "training") =>
               /\ pc = "failed" /\ err = "AssertionError"
               /\ brain_generators = 0 /\ input_generators = 0 /\ nb_labels = 0
               /\ dirs = {} /\ calls = <<>> /\ steps_log = <<>>
               /\ loaded = "none" /\ loss_labels = <<>>
        /\ (wl2_epochs > 0 \/ dice_epochs > 0) => err # "AssertionError"

C1_Witness ==
    /\ entry = "training" /\ pc = "failed" /\ err = "AssertionError"
    /\ wl2_epochs <= 0 /\ dice_epochs <= 0

\* C2: the snapshot written for epoch e under metric type m, given back as
\* path_checkpoint to train_model with the same m, is parsed without error
\* and yields initial epoch e; its name is m, '_', e on at least 3 digits, '.h5'.
C2_CheckpointNameRoundTrip ==
    (entry = "resume" /\ Len(calls) = 2 /\ PastCheckpoint) =>
        /\ err = "none"
        /\ init_epoch = n_epochs - 1
        /\ path_checkpoint = Some(SnapshotPath(model_dir, metric_type, n_epochs - 1))
        /\ Len(Basename(path_checkpoint[1])) >= Len(metric_type) + 1 + 3 + 3

C2_Witness ==
    /\ entry = "resume" /\ Len(calls) = 2 /\ pc = "tm_fit"
    /\ init_epoch = 1000 /\ metric_type = DICE

\* C3 (as claimed): a call of training() with checkpoint=None, any model_dir
\* and wl2_epochs, dice_epochs >= 0 not both zero ends without error, having
\* trained wl2_epochs epochs of wl2 and then dice_epochs epochs of dice, each
\* of steps_per_epoch steps.
C3_TrainsAllEpochs ==
    (/\ entry = "training" /\ checkpoint_arg = None
     /\ wl2_epochs >= 0 /\ dice_epochs >= 0 /\ wl2_epochs + dice_epochs > 0
     /\ Terminated) =>
        /\ pc = "done" /\ err = "none"
        /\ Count(steps_log, WL2) = wl2_epochs * steps_per_epoch
        /\ Count(steps_log, DICE) = dice_epochs * steps_per_epoch

\* C4: a checkpoint that cannot be loaded ends the call with that error: no
\* step of that phase is run, nothing is compiled, nothing more happens, the
\* load is not tried again, and after a failure in the wl2 phase the dice
\* phase is never started.
C4_LoadErrorPropagates ==
    err = "OSError" =>
        /\ pc = "failed"
        /\ ~ENABLED Next
        /\ Count(steps_log, metric_type) = 0 /\ saved = <<>>
        /\ compiled = FALSE /\ loaded = "none"
        /\ Count(calls, metric_type) = 1
        /\ (entry = "training" /\ metric_type = WL2) =>
               Count(calls, DICE) = 0 /\ Count(steps_log, DICE) = 0

C4_Witness ==
    /\ entry = "training" /\ err = "OSError" /\ metric_type = WL2
    /\ pc = "failed" /\ dice_epochs > 0

\* C5: the current phase has written exactly the snapshots of the epochs it
\* completed, <metric>_<i+1> .. <metric>_<epoch> in model_dir, one every
\* n_steps training steps, all of them under its own tag; when it ends these
\* are <metric>_<i+1> .. <metric>_<n>.
C5_SnapshotEveryEpoch ==
    (entry \in {"training", "train_model"} /\ metric_type \in MetricTypes) =>
        /\ pc \in {"tm_setup", "tm_checkpoint", "tm_compile"} => saved = <<>>
        /\ pc \in {"tm_fit", "tm_return", "done", "dice_phase"} =>
               /\ Len(saved) = epoch - init_epoch
               /\ \A k \in 1..Len(saved) :
                      /\ saved[k] = SnapshotPath(model_dir, metric_type, init_epoch + k)
                      /\ saved[k] \in files
               /\ Count(steps_log, metric_type) = Len(saved) * n_steps + step
               /\ pc # "tm_fit" =>
                      Len(saved) = (IF n_epochs > init_epoch
                                    THEN n_epochs - init_epoch ELSE 0)

C5_Witness ==
    /\ entry = "training" /\ pc = "done" /\ calls = <<WL2, DICE>>
    /\ Len(saved) = 2 /\ n_steps = 2 /\ init_epoch = 0

\* C6: in a call of training() at most one generator is ever constructed, it
\* exists before the first training step, both phases are given it, and
\* every batch of every step is pulled from it.
C6_OneGenerator ==
    entry = "training" =>
        /\ brain_generators <= 1 /\ input_generators <= 1
        /\ input_generators = brain_generators
        /\ calls # <<>> => (brain_generators = 1 /\ generator = 1)
        /\ input_generators = 1 => batches = <<Len(steps_log)>>
        /\ input_generators = 0 => steps_log = <<>>

C6_Witness ==
    /\ entry = "training" /\ pc = "done"
    /\ Count(steps_log, WL2) > 0 /\ Count(steps_log, DICE) > 0

\* C7: with segmentation_labels None the training labels are the generation
\* labels; the network has as many output classes as segmentation_labels has
\* distinct values, one fewer than the generation labels for every label
\* merged into another; the generator and the loss model of every phase are
\* given that same list.
C7_SegmentationLabels ==
    (entry = "training" /\ pc \notin {"training", "get_labels"}
     /\ err # "AssertionError") =>
        LET seg == segmentation_labels[1]
            repeated == {i \in 1..Len(seg) : \E j \in 1..(i - 1) : seg[j] = seg[i]}
        IN  /\ seg_arg = None => segmentation_labels = generation_labels
            /\ seg_arg # None => segmentation_labels = seg_arg
            /\ n_segmentation_labels = Cardinality({seg[i] : i \in 1..Len(seg)})
            /\ n_segmentation_labels = Len(generation_labels[1]) - Cardinality(repeated)
            /\ pc # "build" =>
                   /\ nb_labels = n_segmentation_labels
                   /\ output_labels = <<segmentation_labels>>
            /\ \A k \in 1..Len(loss_labels) :
                   loss_labels[k] = <<calls[k], segmentation_labels>>
            /\ Len(loss_labels) = Len(calls)

C7_Witness ==
    /\ entry = "training" /\ pc = "done" /\ calls = <<WL2, DICE>>
    /\ seg_arg = Some(<<0, 2, 2>>) /\ nb_labels = 2

\* C8 (as claimed): every call of training() that passes the epoch check
\* starts the dice phase exactly once.
C8_DiceAlwaysStarted ==
    (/\ entry = "training" /\ Terminated
     /\ err \notin {"AssertionError", "IndexError", "ValueError"}) =>
        Count(calls, DICE) = 1

\* C8 (amended): the dice phase is started at most once, only after the wl2
\* phase (run iff wl2_epochs > 0) has run all its epochs, and exactly once
\* unless the wl2 phase ended with an error; no wl2 step follows a dice step;
\* the dice phase is started also when dice_epochs = 0.
C8_PhaseOrder ==
    entry = "training" =>
        /\ Count(calls, DICE) <= 1 /\ Count(calls, WL2) <= 1
        /\ Count(calls, WL2) = 1 => wl2_epochs > 0
        /\ Count(calls, DICE) = 1 =>
               /\ calls = (IF wl2_epochs > 0 THEN <<WL2, DICE>> ELSE <<DICE>>)
               /\ Count(steps_log, WL2) % steps_per_epoch = 0
               /\ checkpoint_arg = None =>
                      Count(steps_log, WL2) =
                          (IF wl2_epochs > 0 THEN wl2_epochs ELSE 0) * steps_per_epoch
        /\ (pc = "dice_phase" /\ wl2_epochs > 0) =>
               (metric_type = WL2 /\ n_epochs = wl2_epochs /\ ~(epoch < n_epochs))
        /\ \A i, j \in 1..Len(steps_log) :
               (i < j /\ steps_log[i] = DICE) => steps_log[j] = DICE
        /\ (pc = "done" \/ (pc = "failed" /\ metric_type = DICE)) =>
               Count(calls, DICE) = 1
        /\ (pc = "failed" /\ metric_type = WL2) => Count(calls, DICE) = 0

C8_Witness ==
    /\ entry = "training" /\ pc = "done" /\ calls = <<WL2, DICE>>
    /\ dice_epochs = 0 /\ Count(steps_log, WL2) > 0

\* C9 (as claimed): for every model_dir and every checkpoint, when
\* wl2_epochs > 0 the dice phase is given model_dir/wl2_<wl2_epochs>.h5,
\* loads weights only from it, compiles and starts at initial epoch 0.
C9_DiceFromLastWl2 ==
    (/\ entry = "training" /\ wl2_epochs > 0 /\ metric_type = DICE
     /\ PastCheckpoint) =>
        /\ path_checkpoint = Some(SnapshotPath(model_dir, WL2, wl2_epochs))
        /\ err \in {"none", "OSError"}
        /\ err = "none" =>
               /\ loaded = "weights" /\ loaded_path = path_checkpoint
               /\ init_epoch = 0
               /\ pc # "tm_compile" => compiled

\* C10: when fit is reached, either the full model was loaded or the model
\* was compiled, never both and never neither; the full load happened iff a
\* checkpoint was given, its path holds the metric type and
\* reinitialise_momentum is False; otherwise a given checkpoint had its
\* weights loaded, and with no checkpoint nothing was loaded.
C10_LoadOrCompile ==
    (entry \in {"training", "train_model"} /\ pc \in {"tm_fit", "tm_return", "done"}) =>
        LET given == path_checkpoint # None
            full == /\ given
                    /\ Contains(metric_type, path_checkpoint[1])
                    /\ ~reinitialise_momentum
        IN  /\ (loaded = "model") # compiled
            /\ (loaded = "model") <=> full
            /\ (loaded = "weights") <=> (given /\ ~full)
            /\ (loaded = "none") <=> ~given
            /\ loaded # "none" => loaded_path = path_checkpoint

C10_Witness ==
    /\ entry = "train_model" /\ pc = "tm_fit" /\ reinitialise_momentum
    /\ path_checkpoint # None /\ loaded = "weights" /\ compiled
    /\ Contains(metric_type, path_checkpoint[1])
====
